---- MODULE Spec2Model ----
(***************************************************************************)
(* Model of the /parse endpoint of src/main.py (parse_url): one request    *)
(* is fetched, status-checked, and its selector map is evaluated one       *)
(* selector per step against the lazily built CSS and XPath trees.         *)
(*                                                                         *)
(* Representation.                                                         *)
(*  - A string is a sequence of characters, so that strip() is computed.   *)
(*  - An Optional[bool] is a set of at most one boolean ({} is None).      *)
(*  - An Optional[str] URL is a TLA+ string, None being the string "None". *)
(*  - A value of the result map is a tagged record (ValNull, ValStr,       *)
(*    ValList): a scalar string and a one-element list stay distinct.      *)
(*  - selector_def.value is represented by what the selector engine does   *)
(*    with it on the fetched document: it raises, or it returns a sequence *)
(*    of matches (field "query").                                          *)
(***************************************************************************)
EXTENDS Integers, Sequences, FiniteSets, TLC

VARIABLES
    request,                \* request_data: url, selectors, options
    server,                 \* what requests.get will receive for the url
    pc,                     \* position inside parse_url
    final_status_code,      \* line 99/112 (0 stands for "not set", line 149)
    actual_final_url,       \* line 102/113/127
    redirect_location_url,  \* line 101/123
    html_text,              \* line 132, the decoded text
    soup,                   \* line 158/169, "None" or "tree"
    html_tree,              \* line 159/181, "None" or "tree"
    idx,                    \* position of the for loop of line 160
    results,                \* key -> the list `results` when line 213 is reached
    raised,                 \* key -> whether the handler of line 210 ran
    parsed_data,            \* line 152
    response,               \* what parse_url answers
    css_calls,              \* number of calls of BeautifulSoup(...), line 169
    xpath_calls             \* number of calls of lxml.html.fromstring(...), line 181

vars == <<request, server, pc, final_status_code, actual_final_url,
          redirect_location_url, html_text, soup, html_tree, idx, results,
          raised, parsed_data, response, css_calls, xpath_calls>>

\* ------------------------------------------------------------------ bounds
MaxSelectors == 2
MaxMatches == 2

\* ----------------------------------------------------------------- strings
None == "None"
Space == " "

RECURSIVE LStrip(_)
LStrip(s) == IF s # <<>> /\ Head(s) = Space THEN LStrip(Tail(s)) ELSE s

RECURSIVE RStrip(_)
RStrip(s) ==
    IF s # <<>> /\ s[Len(s)] = Space THEN RStrip(SubSeq(s, 1, Len(s) - 1)) ELSE s

\* str.strip()
Strip(s) == RStrip(LStrip(s))

\* f"Ошибка обработки: {e}"; e is the exception's text
ErrorText(e) == <<"!">> \o e

\* str(e) of an exception of the selector engine / of a tree constructor
QueryError == <<"q">>
TreeError == <<"t">>

\* str(element) / lxml.html.tostring(element): the element's markup around
\* its text
Markup(text) == <<"<">> \o text \o <<">">>

\* -------------------------------------------------------- result map values
ValNull == [shape |-> "null", str |-> <<>>, list |-> <<>>]
ValStr(s) == [shape |-> "str", str |-> s, list |-> <<>>]
ValList(l) == [shape |-> "list", str |-> <<>>, list |-> l]

\* ------------------------------------------------------------- the request
CSS == "css"
XPATH == "xpath"
REGEX == "regex"
SelectorType == {CSS, XPATH, REGEX}

\* a slip of line 165: `selector_def.text_only or options.text_only`, which
\* lets the batch option win over an explicit text_only=false
EffectiveTextOnlyOr(selector_def, options) ==
    (TRUE \in selector_def.text_only) \/ options.text_only

\* effective_text_only, line 165
EffectiveTextOnly(selector_def, options) ==
    IF selector_def.text_only # {}
    THEN CHOOSE b \in selector_def.text_only : TRUE
    ELSE options.text_only

\* ---------------------------------------------------------------- fetching
\* response.raise_for_status(): HTTPError for 4xx and 5xx only
RaisesForStatus(status_code) == 400 <= status_code /\ status_code < 600

\* lines 116-119: whether the status check raises
StatusCheckRaises(follow_redirects, status_code) ==
    IF follow_redirects THEN RaisesForStatus(status_code)
    ELSE status_code >= 400 /\ RaisesForStatus(status_code)

\* a slip of line 122: the Location header is taken on every 3xx
TakesLocationAlways(follow_redirects, status_code) ==
    300 <= status_code /\ status_code < 400

\* line 122
TakesLocation(follow_redirects, status_code) ==
    ~follow_redirects /\ 300 <= status_code /\ status_code < 400

\* lines 126-127
FinalUrl(response_url, initial_url) ==
    IF response_url = initial_url THEN None ELSE response_url

\* should_parse, lines 153-154
ShouldParse(follow_redirects, status_code) ==
    (status_code >= 200 /\ status_code < 300)
    \/ (~follow_redirects /\ status_code >= 300 /\ status_code < 400)

\* raise HTTPException(status_code=...)
ErrorResponse(status_code) ==
    [kind |-> "error", status_code |-> status_code, redirect_location |-> None,
     final_url |-> None, data |-> <<>>]

NoResponse ==
    [kind |-> "none", status_code |-> 0, redirect_location |-> None,
     final_url |-> None, data |-> <<>>]

\* ---------------------------------------------------- selector evaluation
\* One element of soup.select(): get_text(strip=True) or str(element)
CssItem(element, effective_text_only) ==
    IF effective_text_only
    THEN (IF Strip(element.text) # <<>> THEN <<Strip(element.text)>> ELSE <<>>)
    ELSE <<Markup(element.text)>>

\* lines 171-179: for i in range(limit)
RECURSIVE CssLoop(_, _, _, _)
CssLoop(elements, i, limit, effective_text_only) ==
    IF i > limit THEN <<>>
    ELSE CssItem(elements[i], effective_text_only)
         \o CssLoop(elements, i + 1, limit, effective_text_only)

CssExtract(elements, get_all, effective_text_only) ==
    IF elements = <<>> THEN <<>>
    ELSE CssLoop(elements, 1, IF get_all THEN Len(elements) ELSE 1,
                 effective_text_only)

\* lines 189-200: what one node of the XPath result appends
XPathItem(element, effective_text_only) ==
    IF element.kind = "element"
    THEN IF effective_text_only
         THEN (IF Strip(element.text) # <<>> THEN <<Strip(element.text)>> ELSE <<>>)
         ELSE <<Strip(Markup(element.text))>>
    ELSE IF Strip(element.text) # <<>> THEN <<Strip(element.text)>> ELSE <<>>

\* lines 185-200: count is advanced only by an append
RECURSIVE XPathLoop(_, _, _, _, _)
XPathLoop(elements, i, count, limit, effective_text_only) ==
    IF i > Len(elements) \/ count >= limit THEN <<>>
    ELSE LET kept == XPathItem(elements[i], effective_text_only)
         IN  kept \o XPathLoop(elements, i + 1, count + Len(kept), limit,
                               effective_text_only)

XPathExtract(elements, get_all, effective_text_only) ==
    IF elements = <<>> THEN <<>>
    ELSE XPathLoop(elements, 1, 0, IF get_all THEN Len(elements) ELSE 1,
                   effective_text_only)

\* lines 205-209: group(1), or group(0) on IndexError; None is skipped
RegexItem(match) ==
    IF match.kind = "unmatched" THEN <<>>
    ELSE IF Strip(match.text) # <<>> THEN <<Strip(match.text)>> ELSE <<>>

\* lines 202-209: matches_found is advanced only by an append
RECURSIVE RegexLoop(_, _, _, _)
RegexLoop(matches, i, matches_found, get_all) ==
    IF i > Len(matches) \/ (~get_all /\ matches_found >= 1) THEN <<>>
    ELSE LET kept == RegexItem(matches[i])
         IN  kept \o RegexLoop(matches, i + 1, matches_found + Len(kept), get_all)

\* a slip of line 204: the loop stops after one match whatever get_all is
RegexExtractFirstOnly(matches, get_all) == RegexLoop(matches, 1, 0, FALSE)

RegexExtract(matches, get_all) == RegexLoop(matches, 1, 0, get_all)

\* `if soup is None: soup = BeautifulSoup(...)` / the same for html_tree:
\* the constructor runs only while the variable is None, and a constructor
\* that raises leaves it None.
\* a slip of lines 169/181: the built tree is not kept
TreeNotKept(tree, buildable) == None

TreeAfter(tree, buildable) == IF tree = None /\ ~buildable THEN None ELSE "tree"
CallsAfter(tree, calls) == IF tree = None THEN calls + 1 ELSE calls

\* lines 167-212: the inner try of one selector. Yields the list `results`
\* as it stands at line 213 and whether the handler of line 210 ran.
TrySelector(selector_def, effective_text_only, cur_soup, cur_tree, body) ==
    LET q == selector_def.query
        ok(rs) == [results |-> rs, raised |-> FALSE]
        fail(e) == [results |-> <<ErrorText(e)>>, raised |-> TRUE]
    IN  IF selector_def.type = CSS
        THEN IF TreeAfter(cur_soup, body.css_ok) = None THEN fail(TreeError)
             ELSE IF q.raises THEN fail(QueryError)
             ELSE ok(CssExtract(q.nodes, selector_def.get_all, effective_text_only))
        ELSE IF selector_def.type = XPATH
        THEN IF TreeAfter(cur_tree, body.xpath_ok) = None THEN fail(TreeError)
             ELSE IF q.raises THEN fail(QueryError)
             ELSE ok(XPathExtract(q.nodes, selector_def.get_all, effective_text_only))
        ELSE IF q.raises THEN fail(QueryError)
             ELSE ok(RegexExtract(q.nodes, selector_def.get_all))

\* a slip of line 214: the Regex exception is forgotten
NormalizeRegexScalar(rs, get_all, selector_type) ==
    IF rs = <<>> THEN ValNull
    ELSE IF Len(rs) = 1 /\ ~get_all THEN ValStr(rs[1])
    ELSE ValList(rs)

\* a slip of line 214: get_all is forgotten
NormalizeIgnoresGetAll(rs, get_all, selector_type) ==
    IF rs = <<>> THEN ValNull
    ELSE IF Len(rs) = 1 /\ selector_type # REGEX THEN ValStr(rs[1])
    ELSE ValList(rs)

\* a slip of line 213: an empty list is stored as it is
NormalizeKeepsEmpty(rs, get_all, selector_type) ==
    IF Len(rs) = 1 /\ ~get_all /\ selector_type # REGEX THEN ValStr(rs[1])
    ELSE ValList(rs)

\* lines 213-215
Normalize(rs, get_all, selector_type) ==
    IF rs = <<>> THEN ValNull
    ELSE IF Len(rs) = 1 /\ ~get_all /\ selector_type # REGEX THEN ValStr(rs[1])
    ELSE ValList(rs)

\* ------------------------------------------------------------------ inputs
\* Texts of matched nodes: empty, blank, plain, and one that strip() changes
Texts == {<<>>, <<" ">>, <<"a">>, <<" ", "b", " ">>}

SeqsUpTo(S, n) == UNION {[1..k -> S] : k \in 0..n}

\* soup.select() returns elements
CssNodes == [kind : {"element"}, text : Texts]
\* html_tree.xpath() returns elements, strings, and other nodes (a comment)
XPathNodes == [kind : {"element", "str"}, text : Texts]
              \cup [kind : {"other"}, text : {<<" ", "c">>}]
\* re.finditer() yields matches: with a group 1, without one (IndexError,
\* so group 0), or with a group 1 that took no part in the match (None)
RegexNodes == [kind : {"group1", "group0"}, text : Texts]
              \cup [kind : {"unmatched"}, text : {<<"a">>}]

NodesOf(selector_type) ==
    IF selector_type = CSS THEN CssNodes
    ELSE IF selector_type = XPATH THEN XPathNodes ELSE RegexNodes

Raises == [raises |-> TRUE, nodes |-> <<>>]
Matches(nodes) == [raises |-> FALSE, nodes |-> nodes]

OptionalBool == {{}, {TRUE}, {FALSE}}

Def(selector_type, get_all, text_only, query) ==
    [type |-> selector_type, get_all |-> get_all, text_only |-> text_only,
     query |-> query]

\* every SelectorDefinition whose value matches at most MaxMatches nodes
EvalDefs ==
    UNION {[type : {t}, get_all : BOOLEAN, text_only : OptionalBool,
            query : {Raises} \cup {Matches(ns) : ns \in SeqsUpTo(NodesOf(t), MaxMatches)}]
           : t \in SelectorType}

Blank(t) == [kind |-> IF t = REGEX THEN "group1" ELSE "element", text |-> <<" ">>]
Word(t) == [kind |-> IF t = REGEX THEN "group1" ELSE "element",
            text |-> <<" ", "b", " ">>]

\* the selectors of a batch: failing, matching nothing, matching only blank
\* text, and matching text with each text_only setting
BatchDefs ==
    UNION {{Def(t, FALSE, {}, Raises),
            Def(t, FALSE, {}, Matches(<<>>)),
            Def(t, TRUE, {}, Matches(<<Blank(t)>>)),
            Def(t, FALSE, {}, Matches(<<Word(t)>>)),
            Def(t, TRUE, {FALSE}, Matches(<<Word(t)>>)),
            Def(t, FALSE, {TRUE}, Matches(<<Word(t)>>))}
           : t \in SelectorType}

Body(text, css_ok, xpath_ok) == [text |-> text, css_ok |-> css_ok, xpath_ok |-> xpath_ok]

\* response bodies: empty, well-formed, and rejected by one tree constructor
Bodies == {Body("", TRUE, TRUE), Body("text", TRUE, TRUE),
           Body("text", FALSE, TRUE), Body("text", TRUE, FALSE)}

Statuses == {101, 200, 299, 300, 304, 399, 400, 404, 599, 600}

Start ==
    /\ pc = "fetch"
    /\ final_status_code = 0
    /\ actual_final_url = None
    /\ redirect_location_url = None
    /\ html_text = ""
    /\ soup = None
    /\ html_tree = None
    /\ idx = 1
    /\ results = <<>>
    /\ raised = <<>>
    /\ parsed_data = <<>>
    /\ response = NoResponse
    /\ css_calls = 0
    /\ xpath_calls = 0

\* batches of up to MaxSelectors selectors against every kind of body
Init ==
    /\ request \in [url : {"u1"},
                    selectors : SeqsUpTo(BatchDefs, MaxSelectors) \ {<<>>},
                    options : [text_only : BOOLEAN, follow_redirects : {TRUE}]]
    /\ server \in [status_code : {200}, url : {"u1"}, location : {None},
                   body : Bodies]
                  \cup [status_code : {404}, url : {"u1"}, location : {None},
                        body : {Body("text", TRUE, TRUE)}]
    /\ Start

\* one selector of every form against a non-empty body
InitEval ==
    /\ request \in [url : {"u1"},
                    selectors : {<<d>> : d \in EvalDefs},
                    options : [text_only : BOOLEAN, follow_redirects : {TRUE}]]
    /\ server \in [status_code : {200}, url : {"u1"}, location : {None},
                   body : Bodies \ {Body("", TRUE, TRUE)}]
                  \cup [status_code : {404}, url : {"u1"}, location : {None},
                        body : {Body("text", TRUE, TRUE)}]
    /\ Start

\* every status, redirect policy, resolved URL and Location header
InitFetch ==
    /\ request \in [url : {"u1"},
                    selectors : {<<Def(CSS, FALSE, {}, Matches(<<Word(CSS)>>))>>,
                                 <<Def(REGEX, TRUE, {}, Raises),
                                   Def(XPATH, FALSE, {}, Matches(<<>>))>>},
                    options : [text_only : {TRUE}, follow_redirects : BOOLEAN]]
    /\ server \in [status_code : Statuses, url : {"u1", "u2"},
                   location : {None, "loc"},
                   body : {Body("", TRUE, TRUE), Body("text", TRUE, TRUE)}]
    /\ Start

\* ----------------------------------------------------------------- actions
\* requests.get raises requests.exceptions.Timeout (line 134)
FetchTimeout ==
    /\ pc = "fetch"
    /\ pc' = "done"
    /\ response' = ErrorResponse(504)
    /\ UNCHANGED <<request, server, final_status_code, actual_final_url,
                   redirect_location_url, html_text, soup, html_tree, idx,
                   results, raised, parsed_data, css_calls, xpath_calls>>

\* requests.get raises another RequestException, without a response
\* (lines 136-145, final_status_code is still None, so 500), or reading and
\* decoding the content raises (lines 146-147, 500 as well)
FetchFails ==
    /\ pc = "fetch"
    /\ pc' = "done"
    /\ response' = ErrorResponse(500)
    /\ UNCHANGED <<request, server, final_status_code, actual_final_url,
                   redirect_location_url, html_text, soup, html_tree, idx,
                   results, raised, parsed_data, css_calls, xpath_calls>>

\* lines 106-113
Fetch ==
    /\ pc = "fetch"
    /\ final_status_code' = server.status_code
    /\ actual_final_url' = server.url
    /\ pc' = "check"
    /\ UNCHANGED <<request, server, redirect_location_url, html_text, soup,
                   html_tree, idx, results, raised, parsed_data, response,
                   css_calls, xpath_calls>>

\* lines 116-119 raise, handled at lines 136-145
StatusError ==
    /\ pc = "check"
    /\ StatusCheckRaises(request.options.follow_redirects, final_status_code)
    /\ pc' = "done"
    /\ response' = ErrorResponse(final_status_code)
    /\ UNCHANGED <<request, server, final_status_code, actual_final_url,
                   redirect_location_url, html_text, soup, html_tree, idx,
                   results, raised, parsed_data, css_calls, xpath_calls>>

\* lines 116-132 without a raise, then lines 149-159
StatusOk ==
    /\ pc = "check"
    /\ ~StatusCheckRaises(request.options.follow_redirects, final_status_code)
    /\ redirect_location_url' =
         IF TakesLocation(request.options.follow_redirects, final_status_code)
         THEN server.location ELSE redirect_location_url
    /\ actual_final_url' = FinalUrl(actual_final_url, request.url)
    /\ html_text' = server.body.text
    /\ parsed_data' = <<>>
    /\ soup' = None
    /\ html_tree' = None
    /\ idx' = 1
    /\ pc' = IF ShouldParse(request.options.follow_redirects, final_status_code)
                /\ html_text' # ""
             THEN "loop" ELSE "return"
    /\ UNCHANGED <<request, server, final_status_code, results, raised,
                   response, css_calls, xpath_calls>>

\* lines 160-215 without the handler of line 210: the exception reaches the
\* handler of line 219 and the request fails
EvalSelectorAborts ==
    /\ pc = "loop"
    /\ idx <= Len(request.selectors)
    /\ LET selector_def == request.selectors[idx]
           effective_text_only == EffectiveTextOnly(selector_def, request.options)
           out == TrySelector(selector_def, effective_text_only, soup, html_tree,
                              server.body)
       IN  /\ soup' = IF selector_def.type = CSS
                      THEN TreeAfter(soup, server.body.css_ok) ELSE soup
           /\ css_calls' = IF selector_def.type = CSS
                           THEN CallsAfter(soup, css_calls) ELSE css_calls
           /\ html_tree' = IF selector_def.type = XPATH
                           THEN TreeAfter(html_tree, server.body.xpath_ok)
                           ELSE html_tree
           /\ xpath_calls' = IF selector_def.type = XPATH
                             THEN CallsAfter(html_tree, xpath_calls)
                             ELSE xpath_calls
           /\ results' = Append(results, out.results)
           /\ raised' = Append(raised, out.raised)
           /\ parsed_data' = Append(parsed_data,
                                    Normalize(out.results, selector_def.get_all,
                                              selector_def.type))
           /\ pc' = IF out.raised THEN "done" ELSE pc
           /\ response' = IF out.raised THEN ErrorResponse(500) ELSE response
    /\ idx' = idx + 1
    /\ UNCHANGED <<request, server, final_status_code, actual_final_url,
                   redirect_location_url, html_text>>

\* lines 160-215: one iteration of the for loop
EvalSelector ==
    /\ pc = "loop"
    /\ idx <= Len(request.selectors)
    /\ LET selector_def == request.selectors[idx]
           effective_text_only == EffectiveTextOnly(selector_def, request.options)
           out == TrySelector(selector_def, effective_text_only, soup, html_tree,
                              server.body)
       IN  /\ soup' = IF selector_def.type = CSS
                      THEN TreeAfter(soup, server.body.css_ok) ELSE soup
           /\ css_calls' = IF selector_def.type = CSS
                           THEN CallsAfter(soup, css_calls) ELSE css_calls
           /\ html_tree' = IF selector_def.type = XPATH
                           THEN TreeAfter(html_tree, server.body.xpath_ok)
                           ELSE html_tree
           /\ xpath_calls' = IF selector_def.type = XPATH
                             THEN CallsAfter(html_tree, xpath_calls)
                             ELSE xpath_calls
           /\ results' = Append(results, out.results)
           /\ raised' = Append(raised, out.raised)
           /\ parsed_data' = Append(parsed_data,
                                    Normalize(out.results, selector_def.get_all,
                                              selector_def.type))
    /\ idx' = idx + 1
    /\ UNCHANGED <<request, server, pc, final_status_code, actual_final_url,
                   redirect_location_url, html_text, response>>

\* the for loop is exhausted
LoopDone ==
    /\ pc = "loop"
    /\ idx > Len(request.selectors)
    /\ pc' = "return"
    /\ UNCHANGED <<request, server, final_status_code, actual_final_url,
                   redirect_location_url, html_text, soup, html_tree, idx,
                   results, raised, parsed_data, response, css_calls,
                   xpath_calls>>

\* lines 224-230
Return ==
    /\ pc = "return"
    /\ response' = [kind |-> "success", status_code |-> final_status_code,
                    redirect_location |-> redirect_location_url,
                    final_url |-> actual_final_url, data |-> parsed_data]
    /\ pc' = "done"
    /\ UNCHANGED <<request, server, final_status_code, actual_final_url,
                   redirect_location_url, html_text, soup, html_tree, idx,
                   results, raised, parsed_data, css_calls, xpath_calls>>

Next ==
    \/ FetchTimeout
    \/ FetchFails
    \/ Fetch
    \/ StatusError
    \/ StatusOk
    \/ EvalSelector
    \/ LoopDone
    \/ Return

Spec == Init /\ [][Next]_vars

SpecEval == InitEval /\ [][Next]_vars

SpecFetch == InitFetch /\ [][Next]_vars

\* ------------------------------------------------------------- properties
Evaluated == 1..Len(parsed_data)

Succeeded == response.kind = "success"

\* the values of a whole batch evaluated from empty caches (lines 157-215)
RECURSIVE BatchValues(_, _, _, _, _)
BatchValues(selectors, options, body, cur_soup, cur_tree) ==
    IF selectors = <<>> THEN <<>>
    ELSE LET selector_def == Head(selectors)
             out == TrySelector(selector_def,
                                EffectiveTextOnly(selector_def, options),
                                cur_soup, cur_tree, body)
         IN  <<Normalize(out.results, selector_def.get_all, selector_def.type)>>
             \o BatchValues(Tail(selectors), options, body,
                            IF selector_def.type = CSS
                            THEN TreeAfter(cur_soup, body.css_ok) ELSE cur_soup,
                            IF selector_def.type = XPATH
                            THEN TreeAfter(cur_tree, body.xpath_ok) ELSE cur_tree)

\* the selector map without key a
Without(selectors, a) ==
    SubSeq(selectors, 1, a - 1) \o SubSeq(selectors, a + 1, Len(selectors))

\* the text/markup mode the request asks for a selector
AskedTextOnly(d) ==
    IF d.text_only = {} THEN request.options.text_only ELSE TRUE \in d.text_only

\* the keep rule: an element when markup is asked, else text that is not
\* blank (a regex group that took no part in the match has no text)
IsElementMarkup(d, node) ==
    d.type # REGEX /\ node.kind = "element" /\ ~AskedTextOnly(d)

Survives(d, node) ==
    IsElementMarkup(d, node)
    \/ (node.kind # "unmatched" /\ Strip(node.text) # <<>>)

\* the string a surviving match contributes
Contribution(d, node) ==
    IF IsElementMarkup(d, node) THEN Markup(node.text) ELSE Strip(node.text)

Contributions(d, nodes) ==
    LET kept == SelectSeq(nodes, LAMBDA node : Survives(d, node))
    IN  [i \in 1..Len(kept) |-> Contribution(d, kept[i])]

IsErrorMessage(str) == str \in {ErrorText(QueryError), ErrorText(TreeError)}

InRange(status_code, low, high) == low <= status_code /\ status_code < high

\* C1: error isolation. When the selector of key a raised, the request, once
\* finished, is a success; a's value carries the error message; and every
\* other evaluated key b has the value it has in the batch without a.
C1_ErrorIsolation ==
    \A a \in Evaluated :
        raised[a] =>
            /\ pc = "done" => Succeeded /\ response.data = parsed_data
            /\ \/ parsed_data[a].shape = "str" /\ IsErrorMessage(parsed_data[a].str)
               \/ /\ parsed_data[a].shape = "list"
                  /\ Len(parsed_data[a].list) = 1
                  /\ IsErrorMessage(parsed_data[a].list[1])
            /\ \A b \in Evaluated \ {a} :
                   parsed_data[b] =
                       BatchValues(Without(request.selectors, a), request.options,
                                   server.body, None, None)[IF b < a THEN b ELSE b - 1]

\* a finished request whose first selector failed and whose second selector
\* extracted a value
C1_Witness ==
    /\ pc = "done"
    /\ Len(raised) = 2
    /\ raised[1]
    /\ ~raised[2]
    /\ parsed_data[2] # ValNull

\* C2: result shape. The value under a key is null for an empty outcome, the
\* single string for a one-element outcome with getAll false and a kind other
\* than Regex, and the full list otherwise.
C2_ResultShape ==
    \A k \in Evaluated :
        LET R == results[k]
            d == request.selectors[k]
        IN  /\ R = <<>> => parsed_data[k].shape = "null"
            /\ R # <<>> /\ Len(R) = 1 /\ ~d.get_all /\ d.type # REGEX =>
                   parsed_data[k].shape = "str" /\ parsed_data[k].str = R[1]
            /\ R # <<>> /\ (Len(R) > 1 \/ d.get_all \/ d.type = REGEX) =>
                   parsed_data[k].shape = "list" /\ parsed_data[k].list = R
            /\ Succeeded => response.data[k] = parsed_data[k]

\* a Regex selector with one match and getAll false answers a one-element list
C2_Witness ==
    /\ Succeeded
    /\ request.selectors[1].type = REGEX
    /\ ~request.selectors[1].get_all
    /\ ~raised[1]
    /\ parsed_data[1].shape = "list"
    /\ Len(parsed_data[1].list) = 1

\* C3 as stated: the value of a failed selector is a one-element list holding
\* the error message, for every kind and both getAll settings.
C3_ErrorIsAlwaysList ==
    \A k \in Evaluated :
        raised[k] =>
            /\ parsed_data[k].shape = "list"
            /\ Len(parsed_data[k].list) = 1
            /\ IsErrorMessage(parsed_data[k].list[1])

\* C3 amended: the outcome of a failed selector is a one-element list holding
\* the error message; its value is that list when the kind is Regex or getAll
\* is true, and the bare message string when the kind is CSS or XPath and
\* getAll is false.
C3_ErrorValue ==
    \A k \in Evaluated :
        raised[k] =>
            LET d == request.selectors[k]
            IN  /\ Len(results[k]) = 1
                /\ IsErrorMessage(results[k][1])
                /\ IF d.type = REGEX \/ d.get_all
                   THEN parsed_data[k].shape = "list" /\ parsed_data[k].list = results[k]
                   ELSE parsed_data[k].shape = "str" /\ parsed_data[k].str = results[k][1]

\* a failed XPath selector with getAll true, answered as a list
C3_Witness ==
    /\ Succeeded
    /\ raised[1]
    /\ request.selectors[1].type = XPATH
    /\ request.selectors[1].get_all
    /\ response.data[1].shape = "list"

\* C4 as stated: each tree constructor is invoked at most once per request.
C4_ConstructorsCalledOnce == css_calls <= 1 /\ xpath_calls <= 1

\* C4 amended: each constructor returns a tree at most once per request. Once
\* it has returned a tree it is not invoked again, also after selectors whose
\* query failed; an invocation that raises leaves nothing cached, so every
\* later selector of that kind invokes the constructor again.
C4_TreeBuiltOnce ==
    LET seen(t) == Cardinality({k \in Evaluated : request.selectors[k].type = t})
    IN  /\ soup = "tree" => css_calls = 1
        /\ html_tree = "tree" => xpath_calls = 1
        /\ soup = None => css_calls = seen(CSS)
        /\ html_tree = None => xpath_calls = seen(XPATH)
        /\ server.body.css_ok => css_calls <= 1
        /\ server.body.xpath_ok => xpath_calls <= 1

\* two CSS selectors, the first with a failing query, share one tree
C4_Witness ==
    /\ Len(raised) = 2
    /\ request.selectors[1].type = CSS
    /\ request.selectors[2].type = CSS
    /\ raised[1]
    /\ ~raised[2]
    /\ soup = "tree"
    /\ css_calls = 1

\* C5: status gating. A success response is answered only for a status in
\* [200,300), or in [300,400) when redirects were not followed; any other
\* status ends in a fetch-level error, with no selector evaluated.
C5_StatusGating ==
    /\ Succeeded =>
           \/ InRange(response.status_code, 200, 300)
           \/ (~request.options.follow_redirects
               /\ InRange(response.status_code, 300, 400))
    /\ Evaluated # {} =>
           \/ InRange(final_status_code, 200, 300)
           \/ (~request.options.follow_redirects
               /\ InRange(final_status_code, 300, 400))

\* C6: a selector with getAll false has an outcome of at most one string; a
\* selector with getAll true has one string for every match that survives the
\* keep rule, in match order, however many there are.
C6_OutcomeSize ==
    \A k \in Evaluated :
        LET d == request.selectors[k]
        IN  /\ ~d.get_all => Len(results[k]) <= 1
            /\ d.get_all /\ ~raised[k] =>
                   results[k] = Contributions(d, d.query.nodes)

\* getAll true with as many surviving matches as the model allows
C6_Witness ==
    /\ Succeeded
    /\ request.selectors[1].get_all
    /\ ~raised[1]
    /\ Len(request.selectors[1].query.nodes) = MaxMatches
    /\ Len(results[1]) = MaxMatches

\* a selector that fails never yields before failing, and one that does not
\* fail extracts nothing when it has no match or only blank matches
ExtractsNothing(k) ==
    LET d == request.selectors[k]
    IN  ~raised[k] /\ \A i \in 1..Len(d.query.nodes) : ~Survives(d, d.query.nodes[i])

\* C7 as stated: in every success response whose status permits extraction
\* every key is present in data, and a selector that extracts nothing has the
\* value null, also when the fetched body is empty.
C7_EveryKeyPresent ==
    Succeeded /\ InRange(response.status_code, 200, 400) =>
        /\ Len(response.data) = Len(request.selectors)
        /\ \A k \in Evaluated : ExtractsNothing(k) => response.data[k] = ValNull

\* C7 amended: in every success response whose status permits extraction and
\* whose decoded body is not empty, every key is present in data and a
\* selector that extracts nothing has the value null; when the decoded body
\* is empty, data is the empty map.
C7_KeysPresentUnlessEmptyBody ==
    Succeeded /\ InRange(response.status_code, 200, 400) =>
        IF server.body.text = ""
        THEN response.data = <<>>
        ELSE /\ Len(response.data) = Len(request.selectors)
             /\ \A k \in 1..Len(request.selectors) :
                    ExtractsNothing(k) => response.data[k] = ValNull

\* a selector whose only match is blank is answered null
C7_Witness ==
    /\ Succeeded
    /\ Len(response.data) = 2
    /\ request.selectors[2].query.nodes # <<>>
    /\ ExtractsNothing(2)
    /\ response.data[2] = ValNull

\* C8: response metadata. In a success response final_url is set only if the
\* resolved URL differs from the requested one, and redirect_location only if
\* redirects were not followed and the status is in [300,400).
C8_Metadata ==
    Succeeded =>
        /\ response.final_url # None => server.url # request.url
        /\ response.final_url # None => response.final_url = server.url
        /\ response.redirect_location # None =>
               ~request.options.follow_redirects
               /\ InRange(response.status_code, 300, 400)
        /\ response.redirect_location # None =>
               response.redirect_location = server.location

\* a stopped redirect answered with both fields set
C8_Witness ==
    /\ Succeeded
    /\ response.final_url = "u2"
    /\ response.redirect_location = "loc"

\* the first match's contribution, or nothing when it does not survive
FirstMatchOnly(d) ==
    IF d.query.nodes = <<>> THEN <<>>
    ELSE Contributions(d, <<d.query.nodes[1]>>)

\* C9: with getAll false only the first match contributes, for every
\* kind; a first match that is blank gives an empty outcome.
C9_FirstMatchEveryKind ==
    \A k \in Evaluated :
        LET d == request.selectors[k]
        IN  ~d.get_all /\ ~raised[k] => results[k] = FirstMatchOnly(d)

\* C10: effective text-only. A CSS or XPath selector uses its own text_only
\* when present and the batch option otherwise, whatever its siblings say: its
\* matched element yields markup when the mode is false and stripped text
\* when it is true.
C10_EffectiveTextOnly ==
    \A k \in Evaluated :
        LET d == request.selectors[k]
        IN  d.type # REGEX /\ ~raised[k] /\ d.query.nodes = <<Word(d.type)>> =>
                results[k] = IF AskedTextOnly(d)
                             THEN <<Strip(Word(d.type).text)>>
                             ELSE <<Markup(Word(d.type).text)>>

\* batch option true: the selector with text_only=false answers markup, its
\* sibling without an override answers text
C10_Witness ==
    /\ Succeeded
    /\ request.options.text_only
    /\ Len(results) = 2
    /\ request.selectors[1].text_only = {FALSE}
    /\ request.selectors[2].text_only = {}
    /\ request.selectors[1].type = CSS
    /\ request.selectors[2].type = CSS
    /\ results[1] = <<Markup(Word(CSS).text)>>
    /\ results[2] = <<Strip(Word(CSS).text)>>

====
